---- MODULE Spec2Model ----
(***************************************************************************)
(* A model of puziday.py: the calendar-puzzle solver.  The static tables   *)
(* (PIECES, ORIENTATIONS, PLACEMENTS) are computed exactly as the module   *)
(* computes them at import time; solve_for_day / solve_x are modelled as a *)
(* state machine whose steps are the calls of solve, prune and backtrack.  *)
(*                                                                         *)
(* An edge string such as 'DD' is the pair <<"D", 2>>: its first letter    *)
(* (all that startswith() looks at) and its length (all that len() and     *)
(* 'X' * len(e) look at).                                                  *)
(***************************************************************************)
EXTENDS Integers, Sequences, FiniteSets, TLC

GRID_ROWS == 8
GRID_COLS == 7
NUM_CELLS_TO_COVER == GRID_COLS * GRID_ROWS - 3 - 6

None == [none |-> TRUE]

E(d) == <<d, 1>>

Piece(name, edges, rgb) == [name |-> name, edges |-> edges, rgb_color_hex |-> rgb]

PIECES ==
  << Piece("Pento L", <<E("L"), E("U"), E("U"), E("U")>>, "#FAFF81"),
     Piece("Pento T", <<E("R"), E("R"), E("U"), <<"D", 2>> >>, "#FFC53A"),
     Piece("Pento P", <<E("R"), E("R"), E("D"), E("L")>>, "#E06D06"),
     Piece("Pento N", <<E("R"), E("U"), E("R"), E("R")>>, "#B26700"),
     Piece("Pento V", <<E("R"), E("R"), E("D"), E("D")>>, "#004E89"),
     Piece("Pento U", <<E("U"), E("R"), E("R"), E("D")>>, "#177E89"),
     Piece("Pento Z", <<E("R"), E("D"), E("D"), E("R")>>, "#412234"),
     Piece("Tetr I", <<E("R"), E("R"), E("R")>>, "#63A088"),
     Piece("Tetr S", <<E("R"), E("U"), E("R")>>, "#252F5F"),
     Piece("Tetr L", <<E("L"), E("U"), E("U")>>, "#5C8001") >>

PieceNames == { PIECES[i].name : i \in 1..Len(PIECES) }

(* A rotation that forgets the length of the edge ('D' for 'D' * len(e)):  *)
(* the variant of RotateEdge that C6 has to tell from the code.            *)
RotateEdgeUnit(e) ==
  CASE e[1] = "L" -> <<"D", 1>>
    [] e[1] = "U" -> <<"L", 1>>
    [] e[1] = "R" -> <<"U", 1>>
    [] e[1] = "D" -> <<"R", 1>>

(* rotate_90deg_counterclockwise: relabel each edge, keep its length.      *)
RotateEdge(e) ==
  CASE e[1] = "L" -> <<"D", e[2]>>
    [] e[1] = "U" -> <<"L", e[2]>>
    [] e[1] = "R" -> <<"U", e[2]>>
    [] e[1] = "D" -> <<"R", e[2]>>

rotate_90deg_counterclockwise(piece) ==
  Piece(piece.name,
        [i \in 1..Len(piece.edges) |-> RotateEdge(piece.edges[i])],
        piece.rgb_color_hex)

(* mirror_vertically: swap L and R, keep U and D, keep the length.         *)
MirrorEdge(e) ==
  CASE e[1] = "L" -> <<"R", e[2]>>
    [] e[1] = "U" -> <<"U", e[2]>>
    [] e[1] = "R" -> <<"L", e[2]>>
    [] e[1] = "D" -> <<"D", e[2]>>

mirror_vertically(piece) ==
  Piece(piece.name,
        [i \in 1..Len(piece.edges) |-> MirrorEdge(piece.edges[i])],
        piece.rgb_color_hex)

RECURSIVE RotateTimes(_, _)
RotateTimes(piece, n) ==
  IF n = 0 THEN piece
  ELSE rotate_90deg_counterclockwise(RotateTimes(piece, n - 1))

(* The loop body of lines 66-74 for one catalog piece: the piece, its four *)
(* successive rotations, then the mirror of the last one and its four      *)
(* successive rotations, all added to one set.                             *)
OrientationsOf(piece) ==
  LET afterFirstLoop == RotateTimes(piece, 4)
      mirrored == mirror_vertically(afterFirstLoop)
  IN  {piece}
        \cup { RotateTimes(piece, i) : i \in 1..4 }
        \cup { RotateTimes(mirrored, i) : i \in 1..4 }

ORIENTATIONS ==
  [ name \in PieceNames |->
      OrientationsOf(CHOOSE p \in { PIECES[i] : i \in 1..Len(PIECES) } : p.name = name) ]

Cell(row, col) == [row |-> row, col |-> col]

Placement(piece, cells) == [piece |-> piece, cells |-> cells]

(* The walk that moves one cell per edge whatever its length (row -= 1 for *)
(* row -= len(edge)): the variant of Walk that C11 has to tell from the    *)
(* code.                                                                   *)
RECURSIVE WalkUnitSteps(_, _, _, _)
WalkUnitSteps(row, col, edges, i) ==
  IF i > Len(edges) THEN << >>
  ELSE LET edge == edges[i]
           row2 == CASE edge[1] = "U" -> row - 1
                     [] edge[1] = "D" -> row + 1
                     [] OTHER -> row
           col2 == CASE edge[1] = "L" -> col - 1
                     [] edge[1] = "R" -> col + 1
                     [] OTHER -> col
       IN  <<Cell(row2, col2)>> \o WalkUnitSteps(row2, col2, edges, i + 1)

(* The cells visited by the walk of compute_placement after the anchor.    *)
RECURSIVE Walk(_, _, _, _)
Walk(row, col, edges, i) ==
  IF i > Len(edges) THEN << >>
  ELSE LET edge == edges[i]
           row2 == CASE edge[1] = "U" -> row - edge[2]
                     [] edge[1] = "D" -> row + edge[2]
                     [] OTHER -> row
           col2 == CASE edge[1] = "L" -> col - edge[2]
                     [] edge[1] = "R" -> col + edge[2]
                     [] OTHER -> col
       IN  <<Cell(row2, col2)>> \o Walk(row2, col2, edges, i + 1)

(* The validation with `col < 3` on the last row, which lets Cell(7, 3)   *)
(* through: the variant of CellRejected that C4 has to tell from the code. *)
CellRejectedLoose(cell) ==
  \/ cell.row < 0 \/ cell.row >= GRID_ROWS
  \/ cell.col < 0 \/ cell.col >= GRID_COLS
  \/ (cell.row \in {0, 1} /\ cell.col = GRID_COLS - 1)
  \/ (cell.row = GRID_ROWS - 1 /\ cell.col < 3)

(* The validation loop of compute_placement, for one cell.                 *)
CellRejected(cell) ==
  \/ cell.row < 0 \/ cell.row >= GRID_ROWS
  \/ cell.col < 0 \/ cell.col >= GRID_COLS
  \/ (cell.row \in {0, 1} /\ cell.col = GRID_COLS - 1)
  \/ (cell.row = GRID_ROWS - 1 /\ cell.col < 4)

compute_placement(cell, piece) ==
  LET cells == <<cell>> \o Walk(cell.row, cell.col, piece.edges, 1)
  IN  IF \E i \in 1..Len(cells) : CellRejected(cells[i])
      THEN None
      ELSE Placement(piece, { cells[i] : i \in 1..Len(cells) })

GridCells == { Cell(row, col) : row \in 0..(GRID_ROWS - 1), col \in 0..(GRID_COLS - 1) }

PLACEMENTS ==
  UNION { { compute_placement(cell, piece) : piece \in ORIENTATIONS[name] }
          : cell \in GridCells, name \in PieceNames } \ {None}

(***************************************************************************)
(* The date mapper (lines 126-143).  Python's // and % on a positive       *)
(* divisor are floor division and non-negative remainder, as \div and %.   *)
(***************************************************************************)
(* The month counted from 0: the variant of month_to_cell that C20 has to  *)
(* tell from the code.                                                     *)
month_to_cell_from_zero(month) == Cell(month \div 6, month % 6)

month_to_cell(month) == Cell((month - 1) \div 6, (month - 1) % 6)

(* The day counted from 0: the variant of day_to_cell that C10 has to tell *)
(* from the code.                                                          *)
day_to_cell_from_zero(day) == Cell(2 + day \div GRID_COLS, day % GRID_COLS)

day_to_cell(day) == Cell(2 + (day - 1) \div GRID_COLS, (day - 1) % GRID_COLS)

DayOfWeekCells ==
  << Cell(6, 3), Cell(6, 4), Cell(6, 5), Cell(6, 6), Cell(7, 4), Cell(7, 5), Cell(7, 6) >>

(* A list index i of Python: valid in -len..len-1, negative counts from    *)
(* the end; anything else raises IndexError.                               *)
IndexInRange(day_of_week) ==
  /\ day_of_week - 1 >= 0 - Len(DayOfWeekCells)
  /\ day_of_week - 1 < Len(DayOfWeekCells)

day_of_week_to_cell(day_of_week) ==
  IF day_of_week - 1 >= 0
  THEN DayOfWeekCells[day_of_week]
  ELSE DayOfWeekCells[Len(DayOfWeekCells) + day_of_week]

(* The filter without its weekday test: the variant of FilterPlacements    *)
(* that C8 has to tell from the code.                                      *)
FilterWithoutWeekday(universe, month, day, day_of_week) ==
  { placement \in universe :
      /\ month \notin placement.cells
      /\ day \notin placement.cells }

(* The filter of solve_for_day (lines 150-155).                            *)
FilterPlacements(universe, month, day, day_of_week) ==
  { placement \in universe :
      /\ month \notin placement.cells
      /\ day \notin placement.cells
      /\ day_of_week \notin placement.cells }

(***************************************************************************)
(* Iteration orders.  The code iterates sets and frozensets, whose order   *)
(* the language leaves to the hash table.  The order in which the cells of *)
(* a frozenset come out is one of CellOrders, fixed for a whole call; the  *)
(* order in which a candidate set is listed (line 216) is free ("any") or  *)
(* follows PlacementCode upwards ("low") or downwards ("high").            *)
(***************************************************************************)
Rank(cell) == cell.row * GRID_COLS + cell.col

GridSeqAsc ==
  [ i \in 1..(GRID_ROWS * GRID_COLS) |-> Cell((i - 1) \div GRID_COLS, (i - 1) % GRID_COLS) ]

GridSeqDesc ==
  [ i \in 1..(GRID_ROWS * GRID_COLS) |-> GridSeqAsc[GRID_ROWS * GRID_COLS + 1 - i] ]

CellOrders == {"asc", "desc"}

CellList(cells, cellOrder) ==
  LET In(c) == c \in cells
  IN  IF cellOrder = "asc" THEN SelectSeq(GridSeqAsc, In) ELSE SelectSeq(GridSeqDesc, In)

RECURSIVE CodeOf(_, _)
CodeOf(cellSeq, i) ==
  IF i = 0 THEN 0 ELSE CodeOf(cellSeq, i - 1) * (GRID_ROWS * GRID_COLS + 1) + Rank(cellSeq[i]) + 1

PlacementCode(p) == LET s == CellList(p.cells, "asc") IN CodeOf(s, Len(s))

NextCandidates(pending, iterOrder) ==
  CASE iterOrder = "any"  -> pending
    [] iterOrder = "low"  ->
         {CHOOSE p \in pending : \A q \in pending : PlacementCode(p) <= PlacementCode(q)}
    [] iterOrder = "high" ->
         {CHOOSE p \in pending : \A q \in pending : PlacementCode(p) >= PlacementCode(q)}

(***************************************************************************)
(* Constraints.  A key of constraint_to_placements is a piece name or a    *)
(* Cell; the name "Pento L" is the key [name |-> "Pento L"].               *)
(***************************************************************************)
NameKey(name) == [name |-> name]

IsNameKey(k) == "name" \in DOMAIN k

Range(s) == { s[i] : i \in 1..Len(s) }

satisfied_constraints(p, cellOrder) ==
  <<NameKey(p.piece.name)>> \o CellList(p.cells, cellOrder)

SatisfiedKeys(p) == {NameKey(p.piece.name)} \cup p.cells

(* Lines 161-167: the dict in insertion order (the piece names in catalog  *)
(* order, then each cell when a placement first mentions it) and its       *)
(* candidate sets.                                                         *)
BuildKeys(placements, cellOrder) ==
  [ i \in 1..Len(PIECES) |-> NameKey(PIECES[i].name) ]
    \o CellList(UNION { p.cells : p \in placements }, cellOrder)

BuildMapping(placements, cellOrder) ==
  [ k \in Range(BuildKeys(placements, cellOrder)) |->
      IF IsNameKey(k)
      THEN { p \in placements : p.piece.name = k.name }
      ELSE { p \in placements : k \in p.cells } ]

RemoveKey(ks, k) == SelectSeq(ks, LAMBDA x : x # k)

(***************************************************************************)
(* prune (lines 170-191), from the i-th satisfied constraint on.           *)
(* m is the mapping, ks its key order, removed the record built so far.    *)
(***************************************************************************)
Outcome(error, m, ks, removed) ==
  [error |-> error, c2p |-> m, keys |-> ks, removed |-> removed]

(* prune without line 190: a satisfied constraint stays in the dict, with  *)
(* an empty candidate set.  The variant of PruneFrom that C13 has to tell  *)
(* from the code.                                                          *)
RECURSIVE PruneKeepingKeys(_, _, _, _, _)
PruneKeepingKeys(sc, i, m, ks, removed) ==
  IF i > Len(sc) THEN Outcome("ok", m, ks, removed)
  ELSE
    LET satisfied_constraint == sc[i] IN
    IF satisfied_constraint \notin DOMAIN m THEN Outcome("KeyError", m, ks, removed)
    ELSE
      LET placements_to_remove == m[satisfied_constraint] IN
      IF \E p \in placements_to_remove : \E oc \in SatisfiedKeys(p) :
            oc \notin DOMAIN m \/ p \notin m[oc]
      THEN Outcome("KeyError", m, ks, removed)
      ELSE
        LET m1 == [ c \in DOMAIN m |->
                      { p \in m[c] : ~(p \in placements_to_remove /\ c \in SatisfiedKeys(p)) } ]
        IN  IF m1[satisfied_constraint] # {}
            THEN Outcome("AssertionError", m1, ks, removed)
            ELSE PruneKeepingKeys(sc, i + 1, m1, ks, Append(removed, placements_to_remove))

(* prune without line 188: the candidates of a satisfied constraint are    *)
(* recorded but taken out of no set.  The variant of PruneFrom that C18    *)
(* has to tell from the code.                                              *)
RECURSIVE PruneWithoutRemoval(_, _, _, _, _)
PruneWithoutRemoval(sc, i, m, ks, removed) ==
  IF i > Len(sc) THEN Outcome("ok", m, ks, removed)
  ELSE
    LET satisfied_constraint == sc[i] IN
    IF satisfied_constraint \notin DOMAIN m THEN Outcome("KeyError", m, ks, removed)
    ELSE
      LET placements_to_remove == m[satisfied_constraint] IN
      IF m[satisfied_constraint] # {}
      THEN Outcome("AssertionError", m, ks, removed)
      ELSE PruneWithoutRemoval(sc, i + 1,
                               [ c \in DOMAIN m \ {satisfied_constraint} |-> m[c] ],
                               RemoveKey(ks, satisfied_constraint),
                               Append(removed, placements_to_remove))

RECURSIVE PruneFrom(_, _, _, _, _)
PruneFrom(sc, i, m, ks, removed) ==
  IF i > Len(sc) THEN Outcome("ok", m, ks, removed)
  ELSE
    LET satisfied_constraint == sc[i] IN
    IF satisfied_constraint \notin DOMAIN m THEN Outcome("KeyError", m, ks, removed)
    ELSE
      LET placements_to_remove == m[satisfied_constraint] IN
      IF \E p \in placements_to_remove : \E oc \in SatisfiedKeys(p) :
            oc \notin DOMAIN m \/ p \notin m[oc]
      THEN Outcome("KeyError", m, ks, removed)
      ELSE
        LET m1 == [ c \in DOMAIN m |->
                      { p \in m[c] : ~(p \in placements_to_remove /\ c \in SatisfiedKeys(p)) } ]
        IN  IF m1[satisfied_constraint] # {}
            THEN Outcome("AssertionError", m1, ks, removed)
            ELSE PruneFrom(sc, i + 1,
                           [ c \in DOMAIN m \ {satisfied_constraint} |-> m1[c] ],
                           RemoveKey(ks, satisfied_constraint),
                           Append(removed, placements_to_remove))

prune(sc, m, ks) == PruneFrom(sc, 1, m, ks, << >>)

(***************************************************************************)
(* backtrack without its inner loop (lines 204-206): the pruned keys come  *)
(* back with their candidates, but the candidates are not put back under   *)
(* the other constraints they satisfy.  The variant of BacktrackFrom that  *)
(* C12 has to tell from the code.                                          *)
(***************************************************************************)
RECURSIVE BacktrackKeysOnly(_, _, _, _, _)
BacktrackKeysOnly(sc, i, m, ks, removed) ==
  IF i = 0
  THEN Outcome(IF removed # << >> THEN "AssertionError" ELSE "ok", m, ks, removed)
  ELSE
    LET satisfied_constraint == sc[i] IN
    IF satisfied_constraint \in DOMAIN m THEN Outcome("AssertionError", m, ks, removed)
    ELSE IF removed = << >> THEN Outcome("IndexError", m, ks, removed)
    ELSE
      LET restored == removed[Len(removed)]
      IN  BacktrackKeysOnly(sc, i - 1,
                            [ c \in DOMAIN m \cup {satisfied_constraint} |->
                                IF c = satisfied_constraint THEN restored ELSE m[c] ],
                            Append(ks, satisfied_constraint),
                            SubSeq(removed, 1, Len(removed) - 1))

(***************************************************************************)
(* backtrack (lines 193-207), from the i-th satisfied constraint down.     *)
(***************************************************************************)
RECURSIVE BacktrackFrom(_, _, _, _, _)
BacktrackFrom(sc, i, m, ks, removed) ==
  IF i = 0
  THEN Outcome(IF removed # << >> THEN "AssertionError" ELSE "ok", m, ks, removed)
  ELSE
    LET satisfied_constraint == sc[i] IN
    IF satisfied_constraint \in DOMAIN m THEN Outcome("AssertionError", m, ks, removed)
    ELSE IF removed = << >> THEN Outcome("IndexError", m, ks, removed)
    ELSE
      LET restored == removed[Len(removed)]
          m1 == [ c \in DOMAIN m \cup {satisfied_constraint} |->
                    IF c = satisfied_constraint THEN restored ELSE m[c] ]
      IN  IF \E p \in restored : \E oc \in SatisfiedKeys(p) : oc \notin DOMAIN m1
          THEN Outcome("KeyError", m1, Append(ks, satisfied_constraint), removed)
          ELSE BacktrackFrom(sc, i - 1,
                             [ c \in DOMAIN m1 |->
                                 m1[c] \cup { p \in restored : c \in SatisfiedKeys(p) } ],
                             Append(ks, satisfied_constraint),
                             SubSeq(removed, 1, Len(removed) - 1))

(* backtrack walking the constraints forwards (no reversed() on line 201): *)
(* the variant of backtrack that C2 has to tell from the code.             *)
backtrack_unreversed(sc, removed, m, ks) ==
  BacktrackFrom([ i \in 1..Len(sc) |-> sc[Len(sc) + 1 - i] ], Len(sc), m, ks, removed)

backtrack(sc, removed, m, ks) == BacktrackFrom(sc, Len(sc), m, ks, removed)

(* The first key of the dict, whatever the sizes: the variant of           *)
(* MinConstraint that C14 has to tell from the code.                       *)
FirstConstraint(m, ks) == ks[1]

(***************************************************************************)
(* min(constraint_to_placements, key = len of the candidate set): the      *)
(* first key, in dict order, whose candidate set is smallest.              *)
(***************************************************************************)
MinConstraint(m, ks) ==
  LET size(j) == Cardinality(m[ks[j]])
      least == CHOOSE n \in { size(j) : j \in 1..Len(ks) } :
                 \A j \in 1..Len(ks) : n <= size(j)
      i == CHOOSE j \in 1..Len(ks) :
             /\ size(j) = least
             /\ \A l \in 1..(j - 1) : size(l) # least
  IN  ks[i]

(***************************************************************************)
(* The state.                                                              *)
(*   startup  the module-level code of lines 65-74 and 116-124: where it   *)
(*            is, its loop variable `piece`, and the tables ORIENTATIONS   *)
(*            and PLACEMENTS as built so far;                              *)
(*   pc       where the running query is;                                  *)
(*   query    the arguments of solve_for_day, reserved the three cells     *)
(*            they map to, all_placements the argument of solve_x;         *)
(*   order    the iteration orders of this call;                           *)
(*   constraint_to_placements, keys  the dict and its key order;           *)
(*   stack    the frames of solve; ret the value the last call returned;   *)
(*   naive    None until solve_naive has been called, then what it         *)
(*            returned.                                                    *)
(***************************************************************************)
VARIABLES startup, pc, query, reserved, all_placements, order,
          constraint_to_placements, keys, stack, ret, naive

vars == <<startup, pc, query, reserved, all_placements, order,
          constraint_to_placements, keys, stack, ret, naive>>

solver == <<pc, query, reserved, all_placements, order,
            constraint_to_placements, keys, stack, ret, naive>>

List(s) == [list |-> s]

Frame(constraint, pending, next_placement, sc, removed) ==
  [ constraint |-> constraint, pending |-> pending, next_placement |-> next_placement,
    satisfied_constraints |-> sc, removed_placements |-> removed ]

Top == stack[Len(stack)]

Pop == SubSeq(stack, 1, Len(stack) - 1)

Startup(stage, index, phase, i, piece, orientations, cell, placements) ==
  [ stage |-> stage, index |-> index, phase |-> phase, i |-> i, piece |-> piece,
    ORIENTATIONS |-> orientations, cell |-> cell, PLACEMENTS |-> placements ]

SolverIdle ==
  /\ pc = "idle"
  /\ query = None
  /\ reserved = {}
  /\ all_placements = {}
  /\ order = [cells |-> "asc", iter |-> "any"]
  /\ constraint_to_placements = << >>
  /\ keys = << >>
  /\ stack = << >>
  /\ ret = None
  /\ naive = None

(* The process as it starts: line 65 has run, nothing else.                *)
Init ==
  /\ startup = Startup("orientations", 0, "next", 0, None, << >>, 0, {})
  /\ SolverIdle

(* ORIENTATIONS[piece.name].add(piece), and line 67 when seed is TRUE.     *)
AddOrientation(orientations, piece, seed) ==
  [ name \in DOMAIN orientations \cup {piece.name} |->
      IF name # piece.name THEN orientations[name]
      ELSE IF seed THEN {piece}
      ELSE orientations[name] \cup {piece} ]

(* Lines 66-67: the next catalog piece seeds its set.                      *)
SeedPiece ==
  /\ startup.stage = "orientations"
  /\ startup.phase = "next"
  /\ startup.index < Len(PIECES)
  /\ LET piece == PIECES[startup.index + 1] IN
       startup' = [startup EXCEPT !.index = @ + 1, !.phase = "first", !.i = 0,
                                  !.piece = piece,
                                  !.ORIENTATIONS = AddOrientation(@, piece, TRUE)]
  /\ UNCHANGED solver

(* Lines 68-70: one round of the first loop.                               *)
RotateFirst ==
  /\ startup.stage = "orientations"
  /\ startup.phase = "first"
  /\ startup.i < 4
  /\ LET piece == rotate_90deg_counterclockwise(startup.piece) IN
       startup' = [startup EXCEPT !.i = @ + 1, !.piece = piece,
                                  !.ORIENTATIONS = AddOrientation(@, piece, FALSE)]
  /\ UNCHANGED solver

(* The step from the first loop to the second without the mirroring of     *)
(* line 71: the variant of Mirror that C15 has to tell from the code.      *)
MirrorSkipped ==
  /\ startup.stage = "orientations"
  /\ startup.phase = "first"
  /\ startup.i = 4
  /\ startup' = [startup EXCEPT !.phase = "second", !.i = 0]
  /\ UNCHANGED solver

(* Line 71.                                                                *)
Mirror ==
  /\ startup.stage = "orientations"
  /\ startup.phase = "first"
  /\ startup.i = 4
  /\ startup' = [startup EXCEPT !.phase = "second", !.i = 0,
                                !.piece = mirror_vertically(@)]
  /\ UNCHANGED solver

(* The second loop with range(3): the variant of RotateSecond that C7 has *)
(* to tell from the code.                                                  *)
RotateSecondThrice ==
  /\ startup.stage = "orientations"
  /\ startup.phase = "second"
  /\ startup.i < 3
  /\ LET piece == rotate_90deg_counterclockwise(startup.piece) IN
       startup' = [startup EXCEPT !.i = @ + 1, !.piece = piece,
                                  !.phase = IF startup.i + 1 = 3 THEN "next" ELSE "second",
                                  !.ORIENTATIONS = AddOrientation(@, piece, FALSE)]
  /\ UNCHANGED solver

(* Lines 72-74: one round of the second loop.                              *)
RotateSecond ==
  /\ startup.stage = "orientations"
  /\ startup.phase = "second"
  /\ startup.i < 4
  /\ LET piece == rotate_90deg_counterclockwise(startup.piece) IN
       startup' = [startup EXCEPT !.i = @ + 1, !.piece = piece,
                                  !.phase = IF startup.i + 1 = 4 THEN "next" ELSE "second",
                                  !.ORIENTATIONS = AddOrientation(@, piece, FALSE)]
  /\ UNCHANGED solver

(* Line 116, once the catalog is exhausted.                                *)
StartPlacements ==
  /\ startup.stage = "orientations"
  /\ startup.phase = "next"
  /\ startup.index = Len(PIECES)
  /\ startup' = [startup EXCEPT !.stage = "placements", !.cell = 0, !.PLACEMENTS = {}]
  /\ UNCHANGED solver

(* Lines 117-124 for one anchor cell, in row-major order: every            *)
(* orientation of every piece is tried there.                              *)
AddCell ==
  /\ startup.stage = "placements"
  /\ startup.cell < GRID_ROWS * GRID_COLS
  /\ LET cell == GridSeqAsc[startup.cell + 1]
         found == UNION { { compute_placement(cell, piece) :
                              piece \in startup.ORIENTATIONS[piece_name] }
                          : piece_name \in DOMAIN startup.ORIENTATIONS } \ {None}
     IN  startup' = [startup EXCEPT
                       !.cell = @ + 1,
                       !.PLACEMENTS = @ \cup found,
                       !.stage = IF startup.cell + 1 = GRID_ROWS * GRID_COLS
                                 THEN "imported" ELSE "placements"]
  /\ UNCHANGED solver

Import ==
  \/ SeedPiece
  \/ RotateFirst
  \/ Mirror
  \/ RotateSecond
  \/ StartPlacements
  \/ AddCell

(* solve_x up to the call of solve on line 229.                            *)
StartSolveX(placements, ord) ==
  LET ks == BuildKeys(placements, ord.cells) IN
  /\ all_placements' = placements
  /\ order' = ord
  /\ constraint_to_placements' = BuildMapping(placements, ord.cells)
  /\ keys' = ks
  /\ stack' = << >>
  /\ ret' = None
  /\ pc' = IF Len(ks) = Len(PIECES) + NUM_CELLS_TO_COVER THEN "solve" ELSE "AssertionError"

(* solve_for_day, lines 145-148: the three arguments become cells; the     *)
(* list index of day_of_week_to_cell raises IndexError when out of range.  *)
SolveForDay(month, day, day_of_week, ord) ==
  /\ startup.stage = "imported"
  /\ pc = "idle"
  /\ query' = [month |-> month, day |-> day, day_of_week |-> day_of_week]
  /\ order' = ord
  /\ IF ~IndexInRange(day_of_week)
     THEN /\ pc' = "IndexError"
          /\ reserved' = {month_to_cell(month), day_to_cell(day)}
     ELSE /\ pc' = "filter"
          /\ reserved' = {month_to_cell(month), day_to_cell(day),
                          day_of_week_to_cell(day_of_week)}
  /\ UNCHANGED <<startup, naive, all_placements, constraint_to_placements, keys, stack, ret>>

(* solve_for_day, lines 150-156: the filter, and the call of solve_x up to *)
(* its assertion.                                                          *)
FilterAndSolve ==
  /\ pc = "filter"
  /\ StartSolveX(FilterPlacements(startup.PLACEMENTS, month_to_cell(query.month),
                                  day_to_cell(query.day),
                                  day_of_week_to_cell(query.day_of_week)), order)
  /\ UNCHANGED <<startup, naive, query, reserved>>

(* solve, lines 210-211: nothing left to satisfy.                          *)
SolveEmpty ==
  /\ pc = "solve"
  /\ DOMAIN constraint_to_placements = {}
  /\ ret' = List(<< >>)
  /\ pc' = "return"
  /\ UNCHANGED <<startup, naive, query, reserved, all_placements, order, constraint_to_placements, keys, stack>>

(* solve, lines 212-215: the chosen constraint has no candidate.           *)
SolveDeadEnd ==
  /\ pc = "solve"
  /\ DOMAIN constraint_to_placements # {}
  /\ constraint_to_placements[MinConstraint(constraint_to_placements, keys)] = {}
  /\ ret' = None
  /\ pc' = "return"
  /\ UNCHANGED <<startup, naive, query, reserved, all_placements, order, constraint_to_placements, keys, stack>>

(* solve, line 216: list the candidates of the chosen constraint.          *)
SolveBranch ==
  /\ pc = "solve"
  /\ DOMAIN constraint_to_placements # {}
  /\ LET constraint == MinConstraint(constraint_to_placements, keys) IN
       /\ constraint_to_placements[constraint] # {}
       /\ stack' = Append(stack, Frame(constraint, constraint_to_placements[constraint],
                                       None, << >>, << >>))
  /\ pc' = "loop"
  /\ UNCHANGED <<startup, naive, query, reserved, all_placements, order, constraint_to_placements, keys, ret>>

(* The step of TryNext with the pruning done on the set the caller passed  *)
(* as well, the way solve_naive treats its argument: the variant of        *)
(* TryNext that C16 has to tell from the code.                             *)
TryNextOnArgument ==
  /\ pc = "loop"
  /\ Top.pending # {}
  /\ \E next_placement \in NextCandidates(Top.pending, order.iter) :
       LET sc == satisfied_constraints(next_placement, order.cells)
           r == prune(sc, constraint_to_placements, keys)
       IN  /\ constraint_to_placements' = r.c2p
           /\ keys' = r.keys
           /\ all_placements' = all_placements \ UNION { r.removed[i] : i \in 1..Len(r.removed) }
           /\ stack' = Append(Pop, Frame(Top.constraint, Top.pending \ {next_placement},
                                         next_placement, sc, r.removed))
           /\ pc' = IF r.error # "ok" THEN r.error
                    ELSE IF r.removed = << >> \/ r.removed[1] = {} THEN "AssertionError"
                    ELSE "solve"
  /\ UNCHANGED <<startup, naive, query, reserved, order, ret>>

(* solve, lines 216-223: the next candidate, prune, the recursive call.    *)
TryNext ==
  /\ pc = "loop"
  /\ Top.pending # {}
  /\ \E next_placement \in NextCandidates(Top.pending, order.iter) :
       LET sc == satisfied_constraints(next_placement, order.cells)
           r == prune(sc, constraint_to_placements, keys)
       IN  /\ constraint_to_placements' = r.c2p
           /\ keys' = r.keys
           /\ stack' = Append(Pop, Frame(Top.constraint, Top.pending \ {next_placement},
                                         next_placement, sc, r.removed))
           /\ pc' = IF r.error # "ok" THEN r.error
                    ELSE IF r.removed = << >> \/ r.removed[1] = {} THEN "AssertionError"
                    ELSE "solve"
  /\ UNCHANGED <<startup, naive, query, reserved, all_placements, order, ret>>

(* `return None` inside the loop: the search gives up once one candidate   *)
(* has failed.  The variant of LoopExhausted that C3 has to tell from the  *)
(* code.                                                                   *)
LoopGivesUp ==
  /\ pc = "loop"
  /\ Top.pending = {} \/ Top.next_placement # None
  /\ stack' = Pop
  /\ ret' = None
  /\ pc' = "return"
  /\ UNCHANGED <<startup, naive, query, reserved, all_placements, order, constraint_to_placements, keys>>

(* solve, line 228: every candidate failed.                                *)
LoopExhausted ==
  /\ pc = "loop"
  /\ Top.pending = {}
  /\ stack' = Pop
  /\ ret' = None
  /\ pc' = "return"
  /\ UNCHANGED <<startup, naive, query, reserved, all_placements, order, constraint_to_placements, keys>>

(* `return solution` without next_placement in front: the variant of       *)
(* ReturnSolution that C1 has to tell from the code.                       *)
ReturnSolutionTail ==
  /\ pc = "return"
  /\ stack # << >>
  /\ ret # None
  /\ ret' = ret
  /\ stack' = Pop
  /\ UNCHANGED <<startup, naive, pc, query, reserved, all_placements, order, constraint_to_placements, keys>>

(* solve, lines 224-225: the recursive call found a solution.              *)
ReturnSolution ==
  /\ pc = "return"
  /\ stack # << >>
  /\ ret # None
  /\ ret' = List(<<Top.next_placement>> \o ret.list)
  /\ stack' = Pop
  /\ UNCHANGED <<startup, naive, pc, query, reserved, all_placements, order, constraint_to_placements, keys>>

(* backtrack followed by a fresh start of the loop: the failed candidate   *)
(* is back among those still to try.  The variant of Backtrack that C19    *)
(* has to tell from the code.                                              *)
BacktrackAndRetry ==
  /\ pc = "return"
  /\ stack # << >>
  /\ ret = None
  /\ LET r == backtrack(Top.satisfied_constraints, Top.removed_placements,
                        constraint_to_placements, keys)
     IN  /\ constraint_to_placements' = r.c2p
         /\ keys' = r.keys
         /\ stack' = Append(Pop, Frame(Top.constraint, Top.pending \cup {Top.next_placement},
                                       Top.next_placement, Top.satisfied_constraints,
                                       r.removed))
         /\ pc' = IF r.error # "ok" THEN r.error ELSE "loop"
  /\ UNCHANGED <<startup, naive, query, reserved, all_placements, order, ret>>

(* solve, lines 226-227: the recursive call failed; undo the prune.        *)
Backtrack ==
  /\ pc = "return"
  /\ stack # << >>
  /\ ret = None
  /\ LET r == backtrack(Top.satisfied_constraints, Top.removed_placements,
                        constraint_to_placements, keys)
     IN  /\ constraint_to_placements' = r.c2p
         /\ keys' = r.keys
         /\ stack' = Append(Pop, Frame(Top.constraint, Top.pending, Top.next_placement,
                                       Top.satisfied_constraints, r.removed))
         /\ pc' = IF r.error # "ok" THEN r.error ELSE "loop"
  /\ UNCHANGED <<startup, naive, query, reserved, all_placements, order, ret>>

(* Line 229: the outermost solve returns to solve_x and to its caller.     *)
Finish ==
  /\ pc = "return"
  /\ stack = << >>
  /\ pc' = "done"
  /\ UNCHANGED <<startup, naive, query, reserved, all_placements, order, constraint_to_placements, keys, stack, ret>>

Search ==
  \/ SolveEmpty
  \/ SolveDeadEnd
  \/ SolveBranch
  \/ TryNext
  \/ LoopExhausted
  \/ ReturnSolution
  \/ Backtrack
  \/ Finish

(***************************************************************************)
(* solve_naive, lines 231-268.  The set it is given is changed in place;   *)
(* the order of list(available_placements) at line 248 is the order of a   *)
(* set, modelled as the placements by ascending ("low") or descending      *)
(* ("high") code.                                                          *)
(***************************************************************************)
(* Lines 232-235.                                                          *)
cell_to_placements(placements) ==
  [ c \in UNION { p.cells : p \in placements } |-> { p \in placements : c \in p.cells } ]

(* Lines 237-239.                                                          *)
piece_name_to_placements(placements) ==
  [ name \in { p.piece.name : p \in placements } |->
      { p \in placements : p.piece.name = name } ]

RECURSIVE ByCode(_)
ByCode(coded) ==
  IF coded = {} THEN << >>
  ELSE LET least == CHOOSE x \in coded : \A y \in coded : x.code <= y.code
       IN  <<least.placement>> \o ByCode(coded \ {least})

Reversed(seq) == [ i \in 1..Len(seq) |-> seq[Len(seq) + 1 - i] ]

(* The order in which a set of placements is listed.                       *)
ListingOrder(placements, iterOrder) ==
  LET asc == ByCode({ [code |-> PlacementCode(p), placement |-> p] : p \in placements })
  IN  IF iterOrder = "high" THEN Reversed(asc) ELSE asc

(* Line 248: list(available_placements).                                   *)
Snapshot(available_placements, listing) ==
  LET Available(p) == p \in available_placements IN SelectSeq(listing, Available)

(* Lines 249-260: removed_placements for one candidate.                    *)
RemovedFor(next_placement, available_placements, tables) ==
  { p \in available_placements : p \in tables.piece_name_to_placements[next_placement.piece.name] }
    \cup UNION { { p \in available_placements : p \in tables.cell_to_placements[c] } :
                 c \in next_placement.cells }

(* Line 266 left out: what a failed candidate took from the set stays     *)
(* out.  The variant of Restored that C17 has to tell from the code.       *)
NotRestored(available_placements, removed_placements) == available_placements

(* Line 266: available_placements.update(removed_placements).              *)
Restored(available_placements, removed_placements) ==
  available_placements \cup removed_placements

Raised(error) == [error |-> error]

NaiveResult(value, available_placements) ==
  [ ret |-> value, available_placements |-> available_placements ]

(* solve, lines 241-267: naive_solve is the body up to the loop, NaiveLoop *)
(* the loop of lines 248-266 from the i-th entry of the snapshot on.       *)
RECURSIVE naive_solve(_, _, _)
RECURSIVE NaiveLoop(_, _, _, _, _)
naive_solve(num_cells_to_cover, available_placements, tables) ==
  IF num_cells_to_cover < 0 THEN NaiveResult(Raised("AssertionError"), available_placements)
  ELSE IF num_cells_to_cover = 0 THEN NaiveResult(List(<< >>), available_placements)
  ELSE IF available_placements = {} THEN NaiveResult(None, available_placements)
  ELSE NaiveLoop(num_cells_to_cover, Snapshot(available_placements, tables.listing), 1,
                 available_placements, tables)

NaiveLoop(num_cells_to_cover, snapshot, i, available_placements, tables) ==
  IF i > Len(snapshot) THEN NaiveResult(None, available_placements)
  ELSE LET next_placement == snapshot[i]
           removed_placements == RemovedFor(next_placement, available_placements, tables)
           solution == naive_solve(num_cells_to_cover - Cardinality(next_placement.cells),
                                   available_placements \ removed_placements, tables)
       IN  IF solution.ret = None
             THEN NaiveLoop(num_cells_to_cover, snapshot, i + 1,
                            Restored(solution.available_placements, removed_placements),
                            tables)
           ELSE IF solution.ret = Raised("AssertionError") THEN solution
           ELSE NaiveResult(List(<<next_placement>> \o solution.ret.list),
                            solution.available_placements)

solve_naive(placements, iterOrder) ==
  naive_solve(NUM_CELLS_TO_COVER, placements,
              [ cell_to_placements |-> cell_to_placements(placements),
                piece_name_to_placements |-> piece_name_to_placements(placements),
                listing |-> ListingOrder(placements, iterOrder) ])

(* solve_naive called on the set solve_x was called on, once solve_x has   *)
(* returned or raised.                                                     *)
SolveNaive ==
  /\ pc \in {"done", "AssertionError"}
  /\ naive = None
  /\ LET result == solve_naive(all_placements, order.iter)
     IN  /\ naive' = [ret |-> result.ret]
         /\ all_placements' = result.available_placements
  /\ UNCHANGED <<startup, pc, query, reserved, order, constraint_to_placements, keys, stack, ret>>

(***************************************************************************)
(* The queries and universes explored.                                     *)
(*                                                                         *)
(* TilingMap is one tiling of the board for month 2, day 3, weekday 3:     *)
(* the number at a cell is the catalog position of the piece lying on it   *)
(* (0: a reserved or permanently invalid cell).  A small universe keeps,   *)
(* for every piece outside `free`, one placement of the tiling, and for    *)
(* the pieces in `free` every placement of PLACEMENTS that stays inside    *)
(* the cells those pieces occupy in the tiling, except the placements on   *)
(* the cell sets in `dropped`.  Each is a subset of the universe           *)
(* solve_for_day(2, 3, 3) passes to solve_x.                               *)
(***************************************************************************)
MaxDropped == 1

TilingMap ==
  << <<1, 0, 8, 8, 8, 8, 0>>,
     <<1, 6, 6, 6, 3, 3, 0>>,
     <<1, 6, 0, 6, 3, 3, 3>>,
     <<1, 1, 7, 2, 10, 10, 10>>,
     <<7, 7, 7, 2, 2, 2, 10>>,
     <<7, 9, 9, 2, 4, 4, 5>>,
     <<9, 9, 4, 4, 4, 0, 5>>,
     <<0, 0, 0, 0, 5, 5, 5>> >>

TilingQuery == [month |-> 2, day |-> 3, day_of_week |-> 3]

FreeSets == { {2, 4}, {4, 5}, {4, 9} }

PieceIndex(name) == CHOOSE i \in 1..Len(PIECES) : PIECES[i].name = name

Labels(p) == { TilingMap[c.row + 1][c.col + 1] : c \in p.cells }

TilingPlacement ==
  [ i \in 1..Len(PIECES) |->
      CHOOSE p \in PLACEMENTS : PieceIndex(p.piece.name) = i /\ Labels(p) = {i} ]

FreePlacements ==
  [ free \in FreeSets |->
      { p \in PLACEMENTS : PieceIndex(p.piece.name) \in free /\ Labels(p) \subseteq free } ]

RECURSIVE SubsetsUpTo(_, _)
SubsetsUpTo(S, k) ==
  IF k = 0 THEN {{}}
  ELSE LET smaller == SubsetsUpTo(S, k - 1)
       IN  smaller \cup { d \cup {x} : d \in smaller, x \in S }

DropSets(free) == SubsetsUpTo({ p.cells : p \in FreePlacements[free] }, MaxDropped)

SmallUniverse(free, dropped) ==
  { TilingPlacement[i] : i \in (1..Len(PIECES)) \ free }
    \cup { p \in FreePlacements[free] : p.cells \notin dropped }

SmallOrders == [cells : CellOrders, iter : {"any"}]

DayOrders == [cells : CellOrders, iter : {"high"}]

(* solve_x called on a small universe.                                     *)
SolveX ==
  /\ pc = "idle"
  /\ \E free \in FreeSets : \E dropped \in DropSets(free) : \E ord \in SmallOrders :
       StartSolveX(SmallUniverse(free, dropped), ord)
  /\ query' = TilingQuery
  /\ reserved' = { month_to_cell(TilingQuery.month), day_to_cell(TilingQuery.day),
                   day_of_week_to_cell(TilingQuery.day_of_week) }
  /\ UNCHANGED <<startup, naive>>

(* solve_for_day called for the date of the tiling.                        *)
DayQuery ==
  \E ord \in DayOrders :
    SolveForDay(TilingQuery.month, TilingQuery.day, TilingQuery.day_of_week, ord)

(* The program: start-up, then the query for one date.                     *)
Next == Import \/ DayQuery \/ FilterAndSolve \/ Search

Spec == Init /\ [][Next]_vars

(* Start-up alone.                                                         *)
SpecImport == Init /\ [][Import]_vars

(* solve_x on its own, on the small universes: the tables it draws from    *)
(* are the constants ORIENTATIONS and PLACEMENTS.                          *)
InitSolveX ==
  /\ startup = [stage |-> "imported"]
  /\ SolverIdle

NextSolveX == SolveX \/ Search

SpecSolveX == InitSolveX /\ [][NextSolveX]_vars

(* A call of solve is under way.                                           *)
Running == pc \in {"solve", "loop", "return"}

(* Every step of the search changes pc or the stack.                       *)
Moves == pc' # pc \/ stack' # stack

(* The same with the search never left standing: the program is            *)
(* sequential, so a call of solve that is under way takes its next step,   *)
(* and the outermost call returns to its caller.  The first condition is   *)
(* weak fairness of Search with its enabling condition written as Running. *)
SpecSolveXFair ==
  /\ SpecSolveX
  /\ ([]<>(~Running) \/ []<><<Moves>>_vars)
  /\ WF_vars(Finish)

(***************************************************************************)
(* Start-up, then solve_for_day up to the first call of solve, for every   *)
(* date and for some arguments that are not dates: month 0 maps to         *)
(* Cell(-1, 5), day -7 to Cell(0, 6), day 36 to Cell(7, 0), day 41 to      *)
(* Cell(7, 5), and weekday 8 is past the end of the table.                 *)
(***************************************************************************)
(* Both solvers on one universe.  The naive search visits every sequence   *)
(* of placements that fit together, so the universes are ones with few     *)
(* such sequences: sixteen placements of the filtered universe of the      *)
(* tiling's date that between them touch every cell and use every piece    *)
(* but crowd around four cells, so that no more than a few fit together;   *)
(* the same with up to MaxDropped of them left out; each of these alone    *)
(* and together with the ten placements of the tiling.                     *)
(***************************************************************************)
ClashRows ==
  {[ piece |->  1, cells |-> {Cell(0, 0), Cell(1, 0), Cell(1, 1), Cell(1, 2), Cell(1, 3)} ],
   [ piece |->  1, cells |-> {Cell(0, 3), Cell(1, 0), Cell(1, 1), Cell(1, 2), Cell(1, 3)} ],
   [ piece |->  1, cells |-> {Cell(1, 0), Cell(1, 1), Cell(1, 2), Cell(1, 3), Cell(2, 0)} ],
   [ piece |->  1, cells |-> {Cell(2, 5), Cell(3, 2), Cell(3, 3), Cell(3, 4), Cell(3, 5)} ],
   [ piece |->  1, cells |-> {Cell(2, 6), Cell(3, 6), Cell(4, 6), Cell(5, 5), Cell(5, 6)} ],
   [ piece |->  2, cells |-> {Cell(1, 3), Cell(1, 4), Cell(1, 5), Cell(2, 4), Cell(3, 4)} ],
   [ piece |->  3, cells |-> {Cell(4, 3), Cell(4, 4), Cell(4, 5), Cell(5, 4), Cell(5, 5)} ],
   [ piece |->  4, cells |-> {Cell(2, 1), Cell(3, 1), Cell(4, 1), Cell(4, 2), Cell(5, 2)} ],
   [ piece |->  5, cells |-> {Cell(3, 0), Cell(4, 0), Cell(5, 0), Cell(5, 1), Cell(5, 2)} ],
   [ piece |->  6, cells |-> {Cell(5, 0), Cell(5, 2), Cell(6, 0), Cell(6, 1), Cell(6, 2)} ],
   [ piece |->  6, cells |-> {Cell(5, 5), Cell(5, 6), Cell(6, 6), Cell(7, 5), Cell(7, 6)} ],
   [ piece |->  7, cells |-> {Cell(5, 2), Cell(6, 2), Cell(6, 3), Cell(6, 4), Cell(7, 4)} ],
   [ piece |->  8, cells |-> {Cell(5, 1), Cell(5, 2), Cell(5, 3), Cell(5, 4)} ],
   [ piece |->  9, cells |-> {Cell(0, 4), Cell(0, 5), Cell(1, 3), Cell(1, 4)} ],
   [ piece |->  9, cells |-> {Cell(5, 2), Cell(5, 3), Cell(6, 1), Cell(6, 2)} ],
   [ piece |-> 10, cells |-> {Cell(0, 2), Cell(0, 3), Cell(1, 3), Cell(2, 3)} ] }

ClashUniverse ==
  { CHOOSE p \in PLACEMENTS : PieceIndex(p.piece.name) = r.piece /\ p.cells = r.cells :
      r \in ClashRows }

NaiveUniverses ==
  { (ClashUniverse \ dropped) \cup tiling :
      dropped \in SubsetsUpTo(ClashUniverse, MaxDropped),
      tiling \in { {}, { TilingPlacement[i] : i \in 1..Len(PIECES) } } }

NaiveOrders == [cells : CellOrders, iter : {"low", "high"}]

SolveXFirst ==
  /\ pc = "idle"
  /\ \E placements \in NaiveUniverses : \E ord \in NaiveOrders : StartSolveX(placements, ord)
  /\ query' = TilingQuery
  /\ reserved' = { month_to_cell(TilingQuery.month), day_to_cell(TilingQuery.day),
                   day_of_week_to_cell(TilingQuery.day_of_week) }
  /\ UNCHANGED <<startup, naive>>

NextNaive == SolveXFirst \/ Search \/ SolveNaive

SpecNaive == InitSolveX /\ [][NextNaive]_vars

(***************************************************************************)
Months == 1..12
Days == 1..31
Weekdays == 1..7

Dates == [month : Months, day : Days, day_of_week : Weekdays]

OtherArguments ==
  { [month |-> 0, day |-> 3, day_of_week |-> 3],
    [month |-> 2, day |-> 0 - 7, day_of_week |-> 3],
    [month |-> 2, day |-> 36, day_of_week |-> 3],
    [month |-> 0, day |-> 41, day_of_week |-> 2],
    [month |-> 2, day |-> 3, day_of_week |-> 8] }

BuildQuery ==
  \E q \in Dates \cup OtherArguments :
    SolveForDay(q.month, q.day, q.day_of_week, [cells |-> "asc", iter |-> "high"])

NextBuild == Import \/ BuildQuery \/ FilterAndSolve

SpecBuild == Init /\ [][NextBuild]_vars

(* The tables the start-up code builds are the closed forms above.         *)
ImportAgrees ==
  startup.stage = "imported" /\ "PLACEMENTS" \in DOMAIN startup =>
    /\ startup.ORIENTATIONS = ORIENTATIONS
    /\ startup.PLACEMENTS = PLACEMENTS

(***************************************************************************)
(* The properties.                                                         *)
(***************************************************************************)
OnBoard(c) == c.row \in 0..7 /\ c.col \in 0..6

PermanentlyInvalid(c) == (c.row < 2 /\ c.col = 6) \/ (c.row = 7 /\ c.col < 4)

ValidCells == { c \in GridCells : OnBoard(c) /\ ~PermanentlyInvalid(c) }

IsDate(q) == q.month \in Months /\ q.day \in Days /\ q.day_of_week \in Weekdays

(* C4: every placement of the table PLACEMENTS lies on the board and off   *)
(* the six permanently invalid cells, and every placement solve_for_day    *)
(* hands to solve_x also avoids the three reserved cells of the query.     *)
C4_PlacementsValid ==
  /\ pc = "idle" =>
       \A p \in startup.PLACEMENTS : \A c \in p.cells : OnBoard(c) /\ ~PermanentlyInvalid(c)
  /\ \A p \in all_placements : \A c \in p.cells :
       OnBoard(c) /\ ~PermanentlyInvalid(c) /\ c \notin reserved

C4_Witness ==
  /\ pc = "solve"
  /\ IsDate(query)
  /\ all_placements # {}
  /\ all_placements # startup.PLACEMENTS

(* C5: no two distinct elements of PLACEMENTS have the same piece name and *)
(* the same cell set.                                                      *)
C5_NoDuplicateRows ==
  \A p \in startup.PLACEMENTS : \A q \in startup.PLACEMENTS :
    (p.piece.name = q.piece.name /\ p.cells = q.cells) => p = q

(* C6: four rotations, and two mirrorings, give back the edge sequence of  *)
(* every catalog piece: as operators, and in the loop of lines 68-70,      *)
(* whose fourth round leaves the loop variable at the catalog piece.       *)
C6_TransformClosure ==
  /\ \A k \in 1..Len(PIECES) :
       /\ RotateTimes(PIECES[k], 4).edges = PIECES[k].edges
       /\ mirror_vertically(mirror_vertically(PIECES[k])).edges = PIECES[k].edges
  /\ (startup.stage = "orientations" /\ startup.phase = "first" /\ startup.i = 4)
       => startup.piece.edges = PIECES[startup.index].edges

C6_Witness ==
  /\ startup.stage = "orientations"
  /\ startup.phase = "first"
  /\ startup.i = 4
  /\ startup.piece.name = "Pento T"

(* C7: the orientation set of a piece never has more than 8 members, and   *)
(* once the loops are through with the piece it has 1, 2, 4 or 8.          *)
C7_OrientationCardinality ==
  \A name \in DOMAIN startup.ORIENTATIONS :
    /\ Cardinality(startup.ORIENTATIONS[name]) <= 8
    /\ (startup.phase = "next" \/ name # startup.piece.name)
         => Cardinality(startup.ORIENTATIONS[name]) \in {1, 2, 4, 8}

C7_Witness ==
  /\ startup.stage = "placements"
  /\ Cardinality(startup.ORIENTATIONS["Tetr I"]) = 4
  /\ Cardinality(startup.ORIENTATIONS["Pento T"]) = 8

(* C8: for every date the mapping built by solve_x has 57 keys, the 10     *)
(* piece names and the 47 valid cells that are not reserved, each cell     *)
(* with a candidate, and the assertion of line 168 passes.                 *)
C8_FiftySevenKeys ==
  (pc \notin {"idle", "filter"} /\ IsDate(query)) =>
    /\ pc = "solve"
    /\ Len(keys) = 57
    /\ DOMAIN constraint_to_placements =
         { NameKey(PIECES[k].name) : k \in 1..Len(PIECES) } \cup (ValidCells \ reserved)
    /\ Cardinality(ValidCells \ reserved) = 47
    /\ \A c \in ValidCells \ reserved : constraint_to_placements[c] # {}

C8_Witness ==
  /\ pc = "solve"
  /\ IsDate(query)
  /\ reserved \subseteq ValidCells
  /\ Cardinality(reserved) = 3
  /\ Len(keys) = 57

(* C9: a reserved cell off the board or permanently invalid is rejected    *)
(* with InvalidInput before any mapping is built or searched.              *)
C9_InvalidInputRejected ==
  (pc \notin {"idle", "filter"} /\ \E c \in reserved : ~OnBoard(c) \/ PermanentlyInvalid(c)) =>
    /\ pc = "InvalidInput"
    /\ constraint_to_placements = << >>

(* solve_x returned a list that is an exact cover: its placements come     *)
(* from the universe, are pairwise disjoint, cover the valid cells that    *)
(* are not reserved, and use every piece name once.                        *)
IsExactCover(sol) ==
  /\ \A i \in 1..Len(sol) : sol[i] \in all_placements
  /\ \A i \in 1..Len(sol) : \A j \in 1..Len(sol) :
       i < j => sol[i].cells \cap sol[j].cells = {}
  /\ UNION { sol[i].cells : i \in 1..Len(sol) } = ValidCells \ reserved
  /\ \A k \in 1..Len(PIECES) :
       Cardinality({ i \in 1..Len(sol) : sol[i].piece.name = PIECES[k].name }) = 1

(* C1: a list returned by solve_x is an exact cover, whatever the order    *)
(* in which the candidate sets were iterated.                              *)
C1_ReturnedListIsExactCover ==
  (pc = "done" /\ ret # None) => IsExactCover(ret.list)

C1_Witness ==
  /\ pc = "done"
  /\ ret # None
  /\ order.iter = "any"
  /\ \E i \in 1..Len(ret.list) : \A k \in 1..Len(PIECES) :
       ret.list[i].cells # TilingPlacement[k].cells

MappingPlacements == UNION { constraint_to_placements[k] : k \in DOMAIN constraint_to_placements }

Consistent == pc \in {"solve", "loop", "return", "done"}

RestoredBy(P) ==
  LET sc == satisfied_constraints(P, order.cells)
      pruned == prune(sc, constraint_to_placements, keys)
      undone == backtrack(sc, pruned.removed, pruned.c2p, pruned.keys)
  IN  /\ pruned.error = "ok"
      /\ undone.error = "ok"
      /\ DOMAIN undone.c2p = DOMAIN constraint_to_placements
      /\ \A k \in DOMAIN constraint_to_placements :
           undone.c2p[k] = constraint_to_placements[k]

(* C2: in every mapping built or reached by the search, prune for any      *)
(* placement still present followed by backtrack with the record prune     *)
(* returned gives back the same keys with the same candidate sets.         *)
C2_PruneBacktrackInverse ==
  Consistent => \A P \in MappingPlacements : RestoredBy(P)

C2_Witness ==
  /\ pc = "loop"
  /\ Top.next_placement # None
  /\ Top.removed_placements = << >>
  /\ Top.next_placement \in constraint_to_placements[Top.constraint]
  /\ Len(stack) >= 2

(* Whether the universe holds an exact cover: one placement for each piece *)
(* name in turn, disjoint from those already taken, the whole covering     *)
(* every cell that some placement of the universe covers.                  *)
RECURSIVE CoverExists(_, _, _)
CoverExists(universe, k, taken) ==
  IF k > Len(PIECES)
  THEN taken = UNION { p.cells : p \in universe }
  ELSE \E p \in universe :
         /\ p.piece.name = PIECES[k].name
         /\ p.cells \cap taken = {}
         /\ CoverExists(universe, k + 1, taken \cup p.cells)

(* C3: solve_x returns None only if the universe holds no exact cover, and *)
(* returns a list whenever it holds one.                                   *)
C3_SearchComplete ==
  pc = "done" => (ret = None <=> ~CoverExists(all_placements, 1, {}))

C3_Witness ==
  /\ pc = "done"
  /\ ret = None
  /\ \A k \in 1..Len(PIECES) : \E p \in all_placements : p.piece.name = PIECES[k].name

(* C10: for month 2, day 3, weekday 3 the reserved cells are (0,1), (2,2)  *)
(* and (6,5), and solve_for_day returns ten placements, one per piece      *)
(* name, that cover the 47 other valid cells once each.                    *)
C10_EndToEnd ==
  (pc # "idle" /\ query = [month |-> 2, day |-> 3, day_of_week |-> 3]) =>
    /\ reserved = {Cell(0, 1), Cell(2, 2), Cell(6, 5)}
    /\ pc = "done" =>
         /\ ret # None
         /\ Len(ret.list) = 10
         /\ IsExactCover(ret.list)
         /\ Cardinality(UNION { ret.list[i].cells : i \in 1..Len(ret.list) }) = 47

C10_Witness ==
  /\ pc = "done"
  /\ query = [month |-> 2, day |-> 3, day_of_week |-> 3]
  /\ all_placements = FilterPlacements(startup.PLACEMENTS, Cell(0, 1), Cell(2, 2), Cell(6, 5))
  /\ ret # None

(* The entries of a list are pairwise different.                           *)
NoRepeats(seq) == \A i \in 1..Len(seq) : \A j \in 1..Len(seq) : i # j => seq[i] # seq[j]

(* C11: a placement of an orientation with k edges has k+1 cells, 5 for a  *)
(* Pento piece and 4 for a Tetr piece, and its satisfied_constraints list  *)
(* is its name followed by its cells, 1 + |cells| entries, none repeated.  *)
C11_CellsAndConstraints ==
  \A p \in startup.PLACEMENTS :
    /\ Cardinality(p.cells) = Len(p.piece.edges) + 1
    /\ Cardinality(p.cells) = IF PieceIndex(p.piece.name) <= 7 THEN 5 ELSE 4
    /\ \A cellOrder \in CellOrders :
         LET sc == satisfied_constraints(p, cellOrder) IN
           /\ Len(sc) = 1 + Cardinality(p.cells)
           /\ NoRepeats(sc)
           /\ sc[1] = NameKey(p.piece.name)
           /\ { sc[i] : i \in 2..Len(sc) } = p.cells

C11_Witness ==
  /\ startup.stage = "imported"
  /\ \E p \in startup.PLACEMENTS :
       /\ p.piece.name = "Pento T"
       /\ \E i \in 1..Len(p.piece.edges) : p.piece.edges[i][2] = 2
       /\ Cardinality(p.cells) = 5
  /\ \E p \in startup.PLACEMENTS : p.piece.name = "Tetr S" /\ Cardinality(p.cells) = 4

(* The mapping as it was when the call of solve at depth d was entered:    *)
(* the freshly built one for the outermost call, and below it the mapping  *)
(* its caller had entered with, after the prune for the caller's current   *)
(* candidate.                                                              *)
RECURSIVE Entered(_)
Entered(d) ==
  IF d = 1 THEN BuildMapping(all_placements, order.cells)
  ELSE prune(stack[d - 1].satisfied_constraints, Entered(d - 1), << >>).c2p

SameMapping(a, b) ==
  /\ DOMAIN a = DOMAIN b
  /\ \A k \in DOMAIN a : a[k] = b[k]

(* C12: when a call of solve has returned None the mapping is the one it   *)
(* was entered with; between two candidates of a loop it is the one before *)
(* the prune for the failed candidate; after a failed solve_x it is the    *)
(* freshly built one.                                                      *)
C12_FailureRestoresMapping ==
  /\ (pc = "return" /\ ret = None) =>
       SameMapping(constraint_to_placements, Entered(Len(stack) + 1))
  /\ (pc = "loop" /\ Top.next_placement # None) =>
       SameMapping(constraint_to_placements, Entered(Len(stack)))
  /\ (pc = "done" /\ ret = None) =>
       SameMapping(constraint_to_placements, BuildMapping(all_placements, order.cells))

C12_Witness ==
  /\ pc = "return"
  /\ ret = None
  /\ Len(stack) >= 2
  /\ Top.pending # {}
  /\ constraint_to_placements # BuildMapping(all_placements, order.cells)

(* The placements still offered by some constraint do not clash with P.    *)
ClearOf(P) ==
  /\ \A oc \in SatisfiedKeys(P) : oc \notin DOMAIN constraint_to_placements
  /\ \A p \in MappingPlacements :
       /\ p.piece.name # P.piece.name
       /\ p.cells \cap P.cells = {}

(* C13: after the prune for a chosen placement none of its constraints is  *)
(* a key and no candidate left has its name or one of its cells; and in    *)
(* every mapping of the search a candidate of one constraint is a          *)
(* candidate of every constraint it satisfies, all of them keys.           *)
C13_PruneLeavesNoClash ==
  /\ pc = "solve" => \A d \in 1..Len(stack) : ClearOf(stack[d].next_placement)
  /\ Consistent =>
       \A p \in MappingPlacements : \A oc \in SatisfiedKeys(p) :
         /\ oc \in DOMAIN constraint_to_placements
         /\ p \in constraint_to_placements[oc]

C13_Witness ==
  /\ pc = "solve"
  /\ Len(stack) >= 2
  /\ Top.pending # {}
  /\ Cardinality(MappingPlacements) >= 2

(* C14: a call of solve that goes on to its loop has chosen a constraint   *)
(* whose candidate set is no larger than any other in the mapping and      *)
(* lists exactly those candidates; a call entered with a constraint that   *)
(* has no candidate returns None at once, the mapping and the stack as     *)
(* they were.                                                              *)
C14_BranchOnMinimum ==
  [][ /\ (pc = "solve" /\ pc' = "loop") =>
           /\ Len(stack') = Len(stack) + 1
           /\ constraint_to_placements' = constraint_to_placements
           /\ stack'[Len(stack')].constraint \in DOMAIN constraint_to_placements
           /\ stack'[Len(stack')].pending =
                constraint_to_placements[stack'[Len(stack')].constraint]
           /\ \A k \in DOMAIN constraint_to_placements :
                Cardinality(stack'[Len(stack')].pending)
                  <= Cardinality(constraint_to_placements[k])
      /\ (pc = "solve" /\ \E k \in DOMAIN constraint_to_placements :
                            constraint_to_placements[k] = {}) =>
           /\ pc' = "return"
           /\ ret' = None
           /\ constraint_to_placements' = constraint_to_placements
           /\ stack' = stack ]_vars

C14_Witness ==
  /\ pc = "loop"
  /\ Top.next_placement = None
  /\ Cardinality(Top.pending) >= 2
  /\ \E k \in DOMAIN constraint_to_placements :
       Cardinality(constraint_to_placements[k]) > Cardinality(Top.pending)
  /\ keys[1] # Top.constraint

(* The image of a piece under the eight transforms of the square.          *)
Dihedral(piece) ==
  { RotateTimes(piece, i) : i \in 0..3 }
    \cup { RotateTimes(mirror_vertically(piece), i) : i \in 0..3 }

(* C15: once the loops are through with a catalog piece its orientation    *)
(* set is exactly the image of the piece under the eight transforms, and   *)
(* while they run it holds nothing else; every member has the piece's name.*)
C15_OrientationsAreDihedralImage ==
  \A name \in DOMAIN startup.ORIENTATIONS :
    LET piece == PIECES[PieceIndex(name)] IN
      /\ startup.ORIENTATIONS[name] \subseteq Dihedral(piece)
      /\ \A o \in startup.ORIENTATIONS[name] : o.name = name
      /\ (startup.phase = "next" \/ name # startup.piece.name)
           => startup.ORIENTATIONS[name] = Dihedral(piece)

C15_Witness ==
  /\ startup.stage = "placements"
  /\ DOMAIN startup.ORIENTATIONS = PieceNames
  /\ mirror_vertically(PIECES[2]) \in startup.ORIENTATIONS["Pento T"]
  /\ RotateTimes(PIECES[2], 3) \in startup.ORIENTATIONS["Pento T"]

(* C16: a query leaves the tables of start-up and the set handed to        *)
(* solve_x alone.  Once the import is through, no step changes ORIENTATIONS*)
(* or PLACEMENTS, which are the values start-up computes; from the call of *)
(* solve_x on, no step of the search changes the set it was called with,   *)
(* whatever it does to the mapping.                                        *)
C16_StaticUniversesUntouched ==
  [][ /\ startup.stage = "imported" =>
           /\ startup' = startup
           /\ "PLACEMENTS" \in DOMAIN startup =>
                 /\ startup.ORIENTATIONS = ORIENTATIONS
                 /\ startup.PLACEMENTS = PLACEMENTS
      /\ pc \notin {"idle", "filter"} => all_placements' = all_placements
      /\ pc' = "solve" /\ "PLACEMENTS" \in DOMAIN startup =>
           all_placements' = FilterPlacements(PLACEMENTS, month_to_cell(query'.month),
                                              day_to_cell(query'.day),
                                              day_of_week_to_cell(query'.day_of_week)) ]_vars

C16_Witness ==
  /\ startup.stage = "imported"
  /\ startup.PLACEMENTS = PLACEMENTS
  /\ pc = "solve"
  /\ Len(stack) >= 3
  /\ all_placements = FilterPlacements(startup.PLACEMENTS, Cell(0, 1), Cell(2, 2), Cell(6, 5))
  /\ Cardinality(MappingPlacements) < Cardinality(all_placements)

(* C17: on one universe solve_naive returns a list exactly when solve_x    *)
(* does, and a list it returns uses every piece once, on pairwise disjoint *)
(* cells that together are the valid cells not reserved.                   *)
C17_NaiveAgrees ==
  naive # None =>
    /\ (naive.ret # None /\ naive.ret # Raised("AssertionError"))
         <=> (pc = "done" /\ ret # None)
    /\ naive.ret # None =>
         /\ naive.ret # Raised("AssertionError")
         /\ \A i \in 1..Len(naive.ret.list) : \A j \in 1..Len(naive.ret.list) :
              i < j => naive.ret.list[i].cells \cap naive.ret.list[j].cells = {}
         /\ UNION { naive.ret.list[i].cells : i \in 1..Len(naive.ret.list) }
              = ValidCells \ reserved
         /\ \A k \in 1..Len(PIECES) :
              Cardinality({ i \in 1..Len(naive.ret.list) :
                              naive.ret.list[i].piece.name = PIECES[k].name }) = 1

C17_Witness ==
  /\ naive # None
  /\ naive.ret # None
  /\ pc = "done"
  /\ ret # None
  /\ Len(naive.ret.list) = Len(PIECES)
  /\ naive.ret.list # ret.list
  /\ all_placements = {}

(* Both solvers give up on a universe that has all 57 constraints.        *)
C17_WitnessNone ==
  /\ naive # None
  /\ naive.ret = None
  /\ pc = "done"
  /\ ret = None
  /\ Len(keys) = Len(PIECES) + NUM_CELLS_TO_COVER

Level == IF pc = "loop" THEN Len(stack) - 1 ELSE Len(stack)

NameKeys == { k \in DOMAIN constraint_to_placements : IsNameKey(k) }

(* A call under way has a step to take: one of the steps without a prune   *)
(* or backtrack is enabled, or the loop has a candidate left for TryNext,  *)
(* or a failed call has a caller for Backtrack.                            *)
CanStep ==
  \/ ENABLED (SolveEmpty \/ SolveDeadEnd \/ SolveBranch \/ LoopExhausted
                \/ ReturnSolution \/ Finish)
  \/ (pc = "loop" /\ Top.pending # {})
  \/ (pc = "return" /\ stack # << >> /\ ret = None)

(* C19, as the code has it: a call of solve_x ends.  Either it raises      *)
(* AssertionError at line 168, before any search, or its search is never   *)
(* stuck, ends, and returns a list or None.  The level of a call of solve  *)
(* is the number of piece names its callers have taken from the mapping,   *)
(* so it is never above ten, and a returned list has no more than ten      *)
(* placements.                                                             *)
C19_TerminatesWithinTenLevels ==
  /\ [](pc = "AssertionError" => stack = << >> /\ Len(keys) # Len(PIECES) + NUM_CELLS_TO_COVER)
  /\ [](Running => CanStep)
  /\ (pc = "solve") ~> (pc = "done" /\ stack = << >>)
  /\ [](Level <= Len(PIECES) /\ Len(stack) <= Len(PIECES))
  /\ [](pc \in {"solve", "loop"} \/ (pc = "return" /\ ret = None)
          => Cardinality(NameKeys) + Level = Len(PIECES))
  /\ [](pc \in {"return", "done"} /\ ret # None => Len(ret.list) + Level <= Len(PIECES))

(* The call of solve at level ten: ten callers, nothing left to satisfy.   *)
C19_Witness ==
  /\ pc = "solve"
  /\ Level = Len(PIECES)
  /\ constraint_to_placements = << >>

(* C19 as stated: every call of solve_x ends with a list or None.          *)
C19_ReturnsListOrNone == pc \notin {"AssertionError", "KeyError", "IndexError"}

(* C20: for every date the three mappers give three different cells, all   *)
(* on the board and none permanently invalid, the weekday lookup stays in  *)
(* its table, and 47 valid cells are left to cover.                        *)
C20_DateCellsDistinctAndValid ==
  (pc # "idle" /\ IsDate(query)) =>
    LET m == month_to_cell(query.month)
        d == day_to_cell(query.day)
        w == day_of_week_to_cell(query.day_of_week)
    IN  /\ pc # "IndexError"
        /\ reserved = {m, d, w}
        /\ m # d /\ m # w /\ d # w
        /\ \A c \in reserved : OnBoard(c) /\ ~PermanentlyInvalid(c)
        /\ Cardinality(ValidCells \ reserved) = NUM_CELLS_TO_COVER

C20_Witness ==
  /\ pc = "filter"
  /\ query = [month |-> 12, day |-> 31, day_of_week |-> 7]
  /\ reserved = {Cell(1, 5), Cell(6, 2), Cell(7, 6)}

====
